---- MODULE Spec2Model ----
(***************************************************************************)
(* Arbitration protocol of the BioCopilot AI chat panel                    *)
(* (src/src/components/AIChatPanel.tsx) and its safety types               *)
(* (src/src/entityTypes.ts, "AI Safety Protocol Types").                   *)
(*                                                                         *)
(* The panel is a React function component.  Its state is the `messages`   *)
(* hook state, three refs and two further hook states; its inputs are the  *)
(* props chatHistory, lastResponse, activeProposal, onChatUpdate,          *)
(* onResolveProposal, analysisContext and isConnected.  One render pass    *)
(* commits the queued `setMessages` updates and then runs, in declaration  *)
(* order, the effects whose dependencies changed; every effect reads the   *)
(* `messages` value of the render it belongs to.  Button clicks are        *)
(* discrete events: their updates are rendered before anything else is     *)
(* processed.  Updates made by effects and by promise continuations are    *)
(* queued and committed by the next render pass together with whatever     *)
(* props changed in the meantime.                                          *)
(***************************************************************************)
EXTENDS Integers, Sequences, FiniteSets, TLC

\* ---------------------------------------------------------------- bounds
MaxEvents == 3            \* environment events per behaviour of Spec, SpecFallback, SpecChannels, SpecZones
MaxLifecycleEvents == 7   \* environment events per behaviour of SpecLifecycle
MaxTime == 1              \* Date.now() ranges over 0..MaxTime
MaxReconcileEvents == 4   \* environment events per behaviour of SpecReconcile, SpecDisplayed
MaxNarrationEvents == 4   \* environment events per behaviour of SpecNarration

\* ------------------------------------------------ values of the data model
NoId == "none"
NoTier == "none"
NoTime == -1

\* AIActionResponse as delivered on the activeProposal prop
Proposal(id, tier) ==
    [type |-> "PROPOSAL", content |-> <<"proposal">>, tool_name |-> "tool",
     proposal_id |-> id, safety_level |-> tier]

NullProposal ==
    [type |-> "null", content |-> <<>>, tool_name |-> "none",
     proposal_id |-> NoId, safety_level |-> NoTier]

ProposalInputs ==
    { Proposal("p1", "YELLOW"), Proposal("p2", "RED"), Proposal("p3", NoTier),
      Proposal(NoId, "YELLOW") }

\* the proposals of the lifecycle specification, and those of the unclassified one
LifecycleInputs == { Proposal("p1", "YELLOW"), Proposal("p2", "RED") }

UntieredInputs == { Proposal("p3", NoTier), Proposal(NoId, "YELLOW") }

\* Sidecar responses as delivered on the lastResponse prop
Response(cmd, type, content, tool, tier) ==
    [cmd |-> cmd, type |-> type, content |-> content, tool_name |-> tool,
     safety_level |-> tier, receivedAt |-> NoTime]

NullResponse == Response("null", "null", <<>>, "none", NoTier)

ResponseInputs ==
    { Response("CHAT", "CHAT", <<"reply">>, "none", NoTier),
      Response("CHAT", "EXECUTE", <<"reply">>, "tool", "GREEN"),
      Response("CHAT", "EXECUTE", <<"reply">>, "tool", "RED"),
      Response("CHAT", "PROPOSAL", <<"proposal">>, "tool", "YELLOW"),
      Response("AGENT_TASK", "none", <<"reply">>, "none", NoTier),
      Response("SUMMARIZE_DE", "none", <<>>, "none", NoTier) }

\* BaseMessage | ProposalMessage
PlainMessage(role, content, ts) ==
    [role |-> role, content |-> content, timestamp |-> ts,
     kind |-> "plain", proposal |-> NullProposal, status |-> "none"]

ProposalMessage(p, ts) ==
    [role |-> "assistant", content |-> p.content, timestamp |-> ts,
     kind |-> "proposal", proposal |-> p, status |-> "pending"]

\* useState aiActivity: null, or { taskName, currentStep }
NoActivity == [taskName |-> "null", currentStep |-> "null"]

Activity(taskName, currentStep) == [taskName |-> taskName, currentStep |-> currentStep]

\* ------------------------------------------------------------- safety types
isProposal(response) ==
    response.type = "PROPOSAL" /\ response.proposal_id # NoId

isRedZone_Never(response) == FALSE

isRedZone(response) ==
    response.safety_level = "RED"

isYellowZone_Strict(response) == response.safety_level = "YELLOW"

isYellowZone(response) ==
    \/ response.safety_level = "YELLOW"
    \/ (response.type = "PROPOSAL" /\ response.safety_level = NoTier)

VARIABLES
    messages,             \* useState `messages`, as committed by the last render
    queue,                \* setMessages updates not yet committed
    isLoading,            \* useState `isLoading`
    aiActivity,           \* useState `aiActivity`
    isSyncingFromParent,  \* useRef
    mountedAt,            \* mountedAtRef
    lastProposalIdRef,    \* useRef
    chatHistory,          \* prop: [defined, val]
    histDirty,            \* chatHistory has a new identity since the last render
    cbDirty,              \* onChatUpdate has a new identity since the last render
    lastResponse,         \* prop
    respDirty,            \* lastResponse has a new identity since the last render
    activeProposal,       \* prop
    propDirty,            \* activeProposal has a new identity since the last render
    config,               \* what the environment of this behaviour may deliver, and how often
    now,                  \* Date.now()
    shelf,                \* the parent's other conversation
    calls,                \* onResolveProposal calls and CHAT_CONFIRM / CHAT_REJECT commands
    resolvePending,       \* resolution promises not yet settled
    sendPending,          \* CHAT command promises not yet settled
    events,               \* environment events so far
    parentDup,            \* history: the parent has supplied a history with a repeated proposal id
    told,                 \* the lists onChatUpdate was called with and the parent did not adopt
    renderer              \* renderEvidenceContent: its content, its elements, the onEntityClick calls

vars == <<messages, queue, isLoading, aiActivity, isSyncingFromParent, mountedAt,
          lastProposalIdRef, chatHistory, histDirty, cbDirty, lastResponse, respDirty,
          activeProposal, propDirty, config, now, shelf, calls,
          resolvePending, sendPending, events, parentDup, told, renderer>>

\* ----------------------------------------------------------------- helpers
IsCard(msg) == msg.kind = "proposal"

CardIndices(msgs, id) ==
    { i \in DOMAIN msgs : IsCard(msgs[i]) /\ msgs[i].proposal.proposal_id = id }

ProposalIds == { p.proposal_id : p \in ProposalInputs } \ {NoId}

HasDuplicateCard(msgs) ==
    \E id \in ProposalIds : Cardinality(CardIndices(msgs, id)) > 1

JsonDiffers_ByIdentity(a, b) == TRUE

\* JSON.stringify(a) !== JSON.stringify(b): the two lists differ by value
JsonDiffers(a, b) == a # b

\* setMessages updates
SetOp(list) == [op |-> "set", val |-> list, msg |-> PlainMessage("assistant", <<>>, 0),
                id |-> NoId, accepted |-> FALSE]
AppendOp(m) == [op |-> "append", val |-> <<>>, msg |-> m, id |-> NoId, accepted |-> FALSE]
ResolveOp(pid, acc) ==
    [op |-> "resolve", val |-> <<>>, msg |-> PlainMessage("assistant", <<>>, 0),
     id |-> pid, accepted |-> acc]

MapStatus_AlwaysApproved(prev, pid, acc) ==
    [i \in DOMAIN prev |->
        IF IsCard(prev[i]) /\ prev[i].proposal.proposal_id = pid
        THEN [prev[i] EXCEPT !.status = "approved"]
        ELSE prev[i]]

\* prev.map(msg => card with proposalId ? {...msg, status} : msg)
MapStatus(prev, pid, acc) ==
    [i \in DOMAIN prev |->
        IF IsCard(prev[i]) /\ prev[i].proposal.proposal_id = pid
        THEN [prev[i] EXCEPT !.status = IF acc THEN "approved" ELSE "rejected"]
        ELSE prev[i]]

ApplyOp_Prepend(prev, u) ==
    CASE u.op = "set" -> u.val
      [] u.op = "append" -> << u.msg >> \o prev
      [] u.op = "resolve" -> MapStatus(prev, u.id, u.accepted)

\* one setMessages update applied to the state it finds
ApplyOp(prev, u) ==
    CASE u.op = "set" -> u.val
      [] u.op = "append" -> Append(prev, u.msg)
      [] u.op = "resolve" -> MapStatus(prev, u.id, u.accepted)

RECURSIVE ApplyQueue(_, _)
ApplyQueue(prev, q) ==
    IF q = <<>> THEN prev ELSE ApplyQueue(ApplyOp(prev, Head(q)), Tail(q))

\* the transcript once every queued update is committed
Transcript == ApplyQueue(messages, queue)

\* responseContent of the lastResponse effect
ResponseContent(r) ==
    IF r.type = "EXECUTE" /\ r.tool_name # "none"
    THEN r.content \o <<"Tool executed", r.tool_name>>
    ELSE r.content

IsDuplicateProposal_NoCheck(msgs, ap) == FALSE

\* messages.some(msg => proposal card with activeProposal's proposal_id)
IsDuplicateProposal(msgs, ap) == CardIndices(msgs, ap.proposal_id) # {}

\* the onChatUpdate prop is supplied
hasOnChatUpdate == TRUE

IsStale_Never(r, mountT) == FALSE

\* typeof __receivedAt === 'number' && __receivedAt < mountedAtRef.current
IsStale(r, mountT) == r.receivedAt # NoTime /\ r.receivedAt < mountT

NotifyParent_NoMarker(syncing, msgs, hist) ==
    /\ hasOnChatUpdate
    /\ ~(Len(msgs) = 0 /\ Len(hist) = 0)
    /\ JsonDiffers(msgs, hist)

\* the body of the notify effect: TRUE when it calls onChatUpdate(messages)
NotifyParent(syncing, msgs, hist) ==
    /\ ~syncing
    /\ hasOnChatUpdate
    /\ ~(Len(msgs) = 0 /\ Len(hist) = 0)
    /\ JsonDiffers(msgs, hist)

NotifyDeps_MessagesOnly(msgsChanged, hD, cD) == msgsChanged

\* the dependencies of the notify effect: [messages, chatHistory, onChatUpdate]
NotifyDeps(msgsChanged, hD, cD) == msgsChanged \/ hD \/ cD

\* ------------------------------------------------------------ render pass
\* One render of the component followed by its effects.  m0/q are the hook
\* state and its queued updates; hD, cD, rD, pD say which props changed
\* identity; first is TRUE for the mount render, where every effect runs.
Pass(m0, q, hD, cD, rD, pD, first, sync0, pid0, loading0, activity0, mountT, t) ==
    LET msgs == ApplyQueue(m0, q)
        msgsChanged == first \/ q # <<>>
        \* useEffect [chatHistory]
        doSync == /\ (first \/ hD)
                  /\ chatHistory.defined
                  /\ JsonDiffers(chatHistory.val, msgs)
        sync1 == IF doSync THEN TRUE ELSE sync0
        q1 == IF doSync THEN <<SetOp(chatHistory.val)>> ELSE <<>>
        \* useEffect [messages, chatHistory, onChatUpdate]
        runNotify == NotifyDeps(msgsChanged, hD, cD)
        sync2 == IF runNotify THEN FALSE ELSE sync1
        histOrEmpty == IF chatHistory.defined THEN chatHistory.val ELSE <<>>
        doNotify == runNotify /\ NotifyParent(sync1, msgs, histOrEmpty)
        \* useEffect [lastResponse]
        r == lastResponse
        live == /\ (first \/ rD)
                /\ r.cmd # "null"
                /\ ~IsStale(r, mountT)
        isChat == live /\ r.cmd = "CHAT" /\ r.type \in {"CHAT", "EXECUTE"}
        isAgent == live /\ ~isChat /\ r.cmd = "AGENT_TASK"
        isStructured == live /\ ~isChat /\ ~isAgent /\ r.cmd = "SUMMARIZE_DE"
        respAppend == isChat \/ ((isAgent \/ isStructured) /\ r.content # <<>>)
        respHandled == isChat \/ isAgent \/ isStructured
        q2 == IF respAppend
              THEN Append(q1, AppendOp(PlainMessage("assistant", ResponseContent(r), t)))
              ELSE q1
        \* useEffect [activeProposal]
        ap == activeProposal
        ranIngest == (first \/ pD) /\ ap.type # "null" /\ ap.proposal_id # NoId
        isDuplicate == IsDuplicateProposal(msgs, ap)
        doIngest == ranIngest /\ ~isDuplicate /\ pid0 # ap.proposal_id
        q3 == IF doIngest THEN Append(q2, AppendOp(ProposalMessage(ap, t))) ELSE q2
    IN  [messages |-> msgs,
         queue |-> q3,
         isSyncingFromParent |-> sync2,
         lastProposalIdRef |-> IF doIngest THEN ap.proposal_id ELSE pid0,
         isLoading |-> IF respHandled \/ doIngest THEN FALSE ELSE loading0,
         aiActivity |-> IF isChat \/ doIngest THEN NoActivity ELSE activity0,
         notify |-> doNotify]

\* the assignments every render pass makes from its result; onChatUpdate(messages)
\* runs inside the pass, and the parent either stores the list as its history
\* or leaves its history as it is
Commit(p) ==
    /\ messages' = p.messages
    /\ queue' = p.queue
    /\ isSyncingFromParent' = p.isSyncingFromParent
    /\ lastProposalIdRef' = p.lastProposalIdRef
    /\ isLoading' = p.isLoading
    /\ aiActivity' = p.aiActivity
    /\ IF p.notify /\ config.adopts
       THEN /\ chatHistory' = [defined |-> TRUE, val |-> p.messages]
            /\ histDirty' = TRUE
            /\ parentDup' = (parentDup \/ HasDuplicateCard(p.messages))
       ELSE /\ chatHistory' = chatHistory
            /\ histDirty' = FALSE
            /\ parentDup' = parentDup
    /\ told' = IF p.notify /\ ~config.adopts THEN Append(told, p.messages) ELSE told
    /\ renderer' = renderer
    /\ cbDirty' = FALSE
    /\ respDirty' = FALSE
    /\ propDirty' = FALSE

\* no message content has been handed to the renderer
IdleRenderer == [content |-> <<>>, rendered |-> FALSE, elements |-> <<>>, clicks |-> <<>>]

Quiescent == queue = <<>> /\ ~histDirty /\ ~cbDirty /\ ~respDirty /\ ~propDirty

InitPanel ==
    /\ chatHistory = [defined |-> TRUE, val |-> <<>>]
    /\ messages = <<>>
    /\ queue = <<>>
    /\ isLoading = FALSE
    /\ aiActivity = NoActivity
    /\ isSyncingFromParent = FALSE
    /\ mountedAt = 0
    /\ lastProposalIdRef = NoId
    /\ histDirty = FALSE
    /\ cbDirty = FALSE
    /\ lastResponse = NullResponse
    /\ respDirty = FALSE
    /\ activeProposal = NullProposal
    /\ propDirty = FALSE
    /\ now = 0
    /\ shelf = <<>>
    /\ calls = <<>>
    /\ resolvePending = 0
    /\ sendPending = 0
    /\ events = 0
    /\ parentDup = FALSE
    /\ told = <<>>

\* the props handleProposalDecision reads: onResolveProposal supplied or not, analysisContext
ResolveProps == { [hasOnResolve |-> TRUE, analysisContext |-> "ctx"],
                  [hasOnResolve |-> FALSE, analysisContext |-> "undefined"] }

Environment(proposals, responses, budget) ==
    { [proposals |-> proposals, responses |-> responses, budget |-> budget, adopts |-> TRUE,
       hasOnResolve |-> rp.hasOnResolve, analysisContext |-> rp.analysisContext] :
      rp \in ResolveProps }

Init ==
    /\ config \in Environment(ProposalInputs, ResponseInputs, MaxEvents)
    /\ InitPanel
    /\ renderer = IdleRenderer

InitLifecycle ==
    /\ config \in Environment(LifecycleInputs, {}, MaxLifecycleEvents)
    /\ InitPanel
    /\ renderer = IdleRenderer

InitUntiered ==
    /\ config \in Environment(UntieredInputs, {}, MaxLifecycleEvents)
    /\ InitPanel
    /\ renderer = IdleRenderer

\* the props of handleProposalDecision, with the fallback commands carrying a context
FallbackProps == ResolveProps \cup { [hasOnResolve |-> FALSE, analysisContext |-> "ctx"] }

InitFallback ==
    /\ config \in { [proposals |-> LifecycleInputs, responses |-> {}, budget |-> MaxEvents,
                      adopts |-> TRUE, hasOnResolve |-> rp.hasOnResolve,
                      analysisContext |-> rp.analysisContext] : rp \in FallbackProps }
    /\ InitPanel
    /\ renderer = IdleRenderer

\* activeProposal values: a proposal, and an executed action that carries a proposal_id
ChannelInputs ==
    { Proposal("p1", "YELLOW"), [Proposal("p4", "GREEN") EXCEPT !.type = "EXECUTE"] }

InitChannels ==
    /\ config \in Environment(ChannelInputs, ResponseInputs, MaxEvents)
    /\ InitPanel
    /\ renderer = IdleRenderer

\* the conversations the parent of the reconciler specification has stored
StoredHistories == { <<>>, <<PlainMessage("user", <<"old">>, 0)>> }

InitReconcile ==
    /\ config \in { [proposals |-> {Proposal("p1", "YELLOW")},
                      responses |-> {Response("CHAT", "CHAT", <<"reply">>, "none", NoTier)},
                      budget |-> MaxReconcileEvents, adopts |-> a,
                      hasOnResolve |-> TRUE, analysisContext |-> "ctx",
                      histories |-> StoredHistories] : a \in BOOLEAN }
    /\ InitPanel
    /\ renderer = IdleRenderer

\* ------------------------------------------------------------ environment
Event == events < config.budget /\ events' = events + 1

panelFrame == <<messages, queue, isLoading, aiActivity, isSyncingFromParent, mountedAt,
                lastProposalIdRef, config, now, calls, resolvePending, sendPending>>

\* useBioEngine: setLastResponse(response), with no receipt time, with the
\* current one, or replayed with an earlier one
DeliverResponse ==
    /\ Event
    /\ \E r \in config.responses, stamp \in {NoTime} \cup (0..now) :
          lastResponse' = [r EXCEPT !.receivedAt = stamp]
    /\ respDirty' = TRUE
    /\ UNCHANGED <<panelFrame, chatHistory, histDirty, cbDirty, activeProposal, propDirty,
                   shelf, parentDup, told, renderer>>

\* the host passes a (new) activeProposal object
DeliverProposal ==
    /\ Event
    /\ activeProposal' \in config.proposals \cup {NullProposal}
    /\ propDirty' = TRUE
    /\ UNCHANGED <<panelFrame, chatHistory, histDirty, cbDirty, lastResponse, respDirty,
                   shelf, parentDup, told, renderer>>

\* the parent switches to its other conversation
ParentSwitch ==
    /\ Event
    /\ chatHistory.defined
    /\ chatHistory' = [defined |-> TRUE, val |-> shelf]
    /\ shelf' = chatHistory.val
    /\ histDirty' = TRUE
    /\ UNCHANGED <<panelFrame, cbDirty, lastResponse, respDirty, activeProposal, propDirty,
                   parentDup, told, renderer>>

\* the parent re-renders: same history, a new onChatUpdate function
ParentRerender ==
    /\ Event
    /\ cbDirty' = TRUE
    /\ UNCHANGED <<panelFrame, chatHistory, histDirty, lastResponse, respDirty, activeProposal,
                   propDirty, shelf, parentDup, told, renderer>>

\* the parent replaces the history by one of its stored conversations
ParentReplace ==
    /\ Event
    /\ \E h \in config.histories : chatHistory' = [defined |-> TRUE, val |-> h]
    /\ histDirty' = TRUE
    /\ UNCHANGED <<panelFrame, cbDirty, lastResponse, respDirty, activeProposal, propDirty,
                   shelf, parentDup, told, renderer>>

\* ------------------------------------------------------------ the component
propFrame == <<lastResponse, activeProposal, config, shelf>>

\* a render pass committing queued updates and changed props
Render ==
    /\ ~Quiescent
    /\ Commit(Pass(messages, queue, histDirty, cbDirty, respDirty, propDirty, FALSE,
                   isSyncingFromParent, lastProposalIdRef, isLoading, aiActivity, mountedAt,
                   now))
    /\ UNCHANGED <<propFrame, now, mountedAt, calls, resolvePending, sendPending, events>>

\* the panel is torn down and mounted again: useState(chatHistory ?? []), fresh refs
\* and mountedAtRef = Date.now(), then the mount render with every effect
Remount ==
    /\ Event
    /\ \E t \in {now, now + 1} :
          /\ t <= MaxTime
          /\ now' = t
          /\ mountedAt' = t
          /\ Commit(Pass(IF chatHistory.defined THEN chatHistory.val ELSE <<>>, <<>>,
                         TRUE, TRUE, TRUE, TRUE, TRUE, FALSE, NoId, FALSE, NoActivity, t, t))
    /\ resolvePending' = 0
    /\ sendPending' = 0
    /\ UNCHANGED <<propFrame, calls>>

\* handleSend up to its await, and the render of its updates
handleSend ==
    /\ Quiescent
    /\ Event
    /\ \E isConnected \in BOOLEAN :
          IF ~isConnected \/ isLoading
          THEN UNCHANGED <<messages, queue, isLoading, aiActivity, isSyncingFromParent,
                           lastProposalIdRef, chatHistory, histDirty, cbDirty, respDirty,
                           propDirty, parentDup, told, renderer, sendPending>>
          ELSE /\ Commit(Pass(messages, <<AppendOp(PlainMessage("user", <<"q">>, now))>>,
                              FALSE, FALSE, FALSE, FALSE, FALSE, isSyncingFromParent,
                              lastProposalIdRef, TRUE, aiActivity, mountedAt, now))
               /\ sendPending' = sendPending + 1
    /\ UNCHANGED <<propFrame, now, mountedAt, calls, resolvePending>>

SendFailureUpdates_Replace(t) ==
    << SetOp(<< PlainMessage("assistant", <<"send error">>, t) >>) >>

\* the updates of handleSend's catch block
SendFailureUpdates(t) ==
    << AppendOp(PlainMessage("assistant", <<"send error">>, t)) >>

\* await sendCommand('CHAT', ...) settles; the catch block runs when it rejects
SendReturns ==
    /\ sendPending > 0
    /\ sendPending' = sendPending - 1
    /\ \E ok \in BOOLEAN :
          IF ok
          THEN UNCHANGED <<queue, isLoading, aiActivity>>
          ELSE /\ queue' = queue \o SendFailureUpdates(now)
               /\ isLoading' = FALSE
               /\ aiActivity' = NoActivity
    /\ UNCHANGED <<messages, isSyncingFromParent, mountedAt, lastProposalIdRef, chatHistory,
                   histDirty, cbDirty, lastResponse, respDirty, activeProposal, propDirty,
                   config, now, shelf, calls, resolvePending, events, parentDup, told, renderer>>

\* the buttons of a rendered message
RejectOffered(msg) == IsCard(msg)
ApproveOffered(msg) == IsCard(msg) /\ ~isRedZone(msg.proposal)
ButtonEnabled_Always(msg) == TRUE

ButtonEnabled(msg) == ~(msg.status # "pending")

\* the proposal-badge text of a rendered card
Badge(msg) ==
    IF msg.proposal.safety_level # NoTier THEN msg.proposal.safety_level ELSE "YELLOW"

ResolutionCall_Swapped(proposalId, accepted) ==
    IF config.hasOnResolve
    THEN [via |-> "onResolveProposal", id |-> proposalId, accepted |-> accepted,
          context |-> config.analysisContext]
    ELSE [via |-> IF accepted THEN "CHAT_REJECT" ELSE "CHAT_CONFIRM", id |-> proposalId,
          accepted |-> accepted,
          context |-> IF config.analysisContext = "undefined" THEN "{}"
                      ELSE config.analysisContext]

\* the call handleProposalDecision makes after its optimistic update
ResolutionCall(proposalId, accepted) ==
    IF config.hasOnResolve
    THEN [via |-> "onResolveProposal", id |-> proposalId, accepted |-> accepted,
          context |-> config.analysisContext]
    ELSE [via |-> IF accepted THEN "CHAT_CONFIRM" ELSE "CHAT_REJECT", id |-> proposalId,
          accepted |-> accepted,
          context |-> IF config.analysisContext = "undefined" THEN "{}"
                      ELSE config.analysisContext]

\* handleProposalDecision up to its await, and the render of its update
handleProposalDecision(proposalId, accepted) ==
    /\ Commit(Pass(messages, <<ResolveOp(proposalId, accepted)>>,
                   FALSE, FALSE, FALSE, FALSE, FALSE,
                   isSyncingFromParent, lastProposalIdRef, isLoading, aiActivity, mountedAt,
                   now))
    /\ calls' = Append(calls, ResolutionCall(proposalId, accepted))
    /\ resolvePending' = resolvePending + 1
    /\ UNCHANGED <<propFrame, now, mountedAt, sendPending>>

\* a click on the approve button of a rendered card
ClickApprove ==
    /\ Quiescent
    /\ Event
    /\ \E i \in DOMAIN messages :
          /\ ApproveOffered(messages[i]) /\ ButtonEnabled(messages[i])
          /\ handleProposalDecision(messages[i].proposal.proposal_id, TRUE)

\* a click on the reject button of a rendered card
ClickReject ==
    /\ Quiescent
    /\ Event
    /\ \E i \in DOMAIN messages :
          /\ RejectOffered(messages[i]) /\ ButtonEnabled(messages[i])
          /\ handleProposalDecision(messages[i].proposal.proposal_id, FALSE)

ResolveFailureUpdates_Twice(t) ==
    << AppendOp(PlainMessage("assistant", <<"resolve error">>, t)),
       AppendOp(PlainMessage("assistant", <<"resolve error">>, t)) >>

\* the updates of handleProposalDecision's catch block
ResolveFailureUpdates(t) ==
    << AppendOp(PlainMessage("assistant", <<"resolve error">>, t)) >>

\* the awaited resolution settles; the catch block runs when it rejects
ResolveReturns ==
    /\ resolvePending > 0
    /\ resolvePending' = resolvePending - 1
    /\ \E ok \in BOOLEAN :
          queue' = IF ok THEN queue ELSE queue \o ResolveFailureUpdates(now)
    /\ UNCHANGED <<messages, isLoading, aiActivity, isSyncingFromParent, mountedAt,
                   lastProposalIdRef, chatHistory, histDirty, cbDirty, lastResponse, respDirty,
                   activeProposal, propDirty, config, now, shelf, calls, sendPending,
                   events, parentDup, told, renderer>>

NextLifecycle ==
    \/ DeliverProposal
    \/ ParentSwitch
    \/ Render
    \/ Remount
    \/ ClickApprove
    \/ ClickReject
    \/ ResolveReturns

Next ==
    \/ NextLifecycle
    \/ DeliverResponse
    \/ handleSend
    \/ SendReturns

\* the reconciler between messages and chatHistory, with every kind of local
\* mutation and a parent that adopts every notification or ignores them all
NextReconcile ==
    \/ ParentReplace
    \/ ParentRerender
    \/ Render
    \/ DeliverResponse
    \/ DeliverProposal
    \/ handleSend
    \/ SendReturns
    \/ ClickApprove
    \/ ClickReject
    \/ ResolveReturns

Spec == Init /\ [][Next]_vars

SpecLifecycle == InitLifecycle /\ [][NextLifecycle]_vars

SpecUntiered == InitUntiered /\ [][NextLifecycle]_vars

SpecFallback == InitFallback /\ [][NextLifecycle]_vars

SpecChannels == InitChannels /\ [][Next]_vars

SpecReconcile == InitReconcile /\ [][NextReconcile]_vars

\* React runs every scheduled render
SpecReconcileFair == InitReconcile /\ [][NextReconcile]_vars /\ WF_vars(Render)

\* a click on a button of a card the last render displays, landing after the
\* effects of that render queued updates and before these are rendered:
\* handleProposalDecision up to its await, its update queued behind them
ClickDisplayed ==
    /\ queue # <<>>
    /\ Event
    /\ \E i \in DOMAIN messages, accepted \in BOOLEAN :
          /\ IF accepted THEN ApproveOffered(messages[i]) ELSE RejectOffered(messages[i])
          /\ ButtonEnabled(messages[i])
          /\ queue' = Append(queue, ResolveOp(messages[i].proposal.proposal_id, accepted))
          /\ calls' = Append(calls, ResolutionCall(messages[i].proposal.proposal_id, accepted))
    /\ resolvePending' = resolvePending + 1
    /\ UNCHANGED <<messages, isLoading, aiActivity, isSyncingFromParent, mountedAt,
                   lastProposalIdRef, chatHistory, histDirty, cbDirty, lastResponse, respDirty,
                   activeProposal, propDirty, config, now, shelf, sendPending, parentDup,
                   told, renderer>>

\* the reconciler with clicks that land between a pass and the next
NextDisplayed ==
    \/ NextReconcile
    \/ ClickDisplayed

SpecDisplayed == InitReconcile /\ [][NextDisplayed]_vars

\* ------------------------------------------------------ safety classes
\* SafetyLevel, and the field left out
SafetyLevels == {"GREEN", "YELLOW", "RED", NoTier}

\* proposals with every value of safety_level the type AIActionResponse admits
ZoneInputs == { Proposal("p1", tier) : tier \in SafetyLevels }

InitZones ==
    /\ config \in Environment(ZoneInputs, {}, MaxEvents)
    /\ InitPanel
    /\ renderer = IdleRenderer

SpecZones == InitZones /\ [][NextLifecycle]_vars

\* ------------------------------------------------------ narration events
\* payloads of AI_PROCESS_START (taskName, steps[0]) and of AI_PROCESS_UPDATE
\* (label || steps[stepIndex]); "undefined" is a field the publisher left out
StartPayloads == { [taskName |-> n, step |-> st] : n \in {"undefined", "task"},
                                                     st \in {"undefined", "step1"} }
UpdatePayloads == { [label |-> l] : l \in {"undefined", "step2"} }

\* the hook states the subscriptions can reach
Hooks == [aiActivity |-> aiActivity, isLoading |-> isLoading]

\* setAiActivity({ taskName: payload.taskName || 'AI Thinking', currentStep: payload.steps?.[0] })
subStart(hooks, payload) ==
    [hooks EXCEPT !.aiActivity =
        Activity(IF payload.taskName = "undefined" THEN "AI Thinking" ELSE payload.taskName,
                 payload.step)]

\* setAiActivity(prev => ({ taskName: prev?.taskName || 'AI Thinking',
\*                          currentStep: payload.label || ... || prev?.currentStep }))
subUpdate(hooks, payload) ==
    LET prev == hooks.aiActivity
    IN  [hooks EXCEPT !.aiActivity =
            Activity(IF prev = NoActivity THEN "AI Thinking" ELSE prev.taskName,
                     IF payload.label # "undefined" THEN payload.label
                     ELSE IF prev = NoActivity THEN "undefined" ELSE prev.currentStep)]

subComplete_ClearsLoading(hooks) ==
    [hooks EXCEPT !.aiActivity = NoActivity, !.isLoading = FALSE]

\* setAiActivity(null)
subComplete(hooks) ==
    [hooks EXCEPT !.aiActivity = NoActivity]

narrationFrame == <<messages, queue, isSyncingFromParent, mountedAt, lastProposalIdRef,
                    chatHistory, histDirty, cbDirty, lastResponse, respDirty, activeProposal,
                    propDirty, config, now, shelf, calls, resolvePending, sendPending,
                    parentDup, told, renderer>>

\* eventBus delivers AI_PROCESS_START
ProcessStart ==
    /\ Event
    /\ \E payload \in StartPayloads :
          /\ aiActivity' = subStart(Hooks, payload).aiActivity
          /\ isLoading' = subStart(Hooks, payload).isLoading
    /\ UNCHANGED narrationFrame

\* eventBus delivers AI_PROCESS_UPDATE
ProcessUpdate ==
    /\ Event
    /\ \E payload \in UpdatePayloads :
          /\ aiActivity' = subUpdate(Hooks, payload).aiActivity
          /\ isLoading' = subUpdate(Hooks, payload).isLoading
    /\ UNCHANGED narrationFrame

\* eventBus delivers AI_PROCESS_COMPLETE
ProcessComplete ==
    /\ Event
    /\ aiActivity' = subComplete(Hooks).aiActivity
    /\ isLoading' = subComplete(Hooks).isLoading
    /\ UNCHANGED narrationFrame

Narration == ProcessStart \/ ProcessUpdate \/ ProcessComplete

InitNarration ==
    /\ config \in { [proposals |-> {Proposal("p1", "YELLOW")},
                      responses |-> {Response("CHAT", "CHAT", <<"reply">>, "none", NoTier)},
                      budget |-> MaxNarrationEvents, adopts |-> a,
                      hasOnResolve |-> TRUE, analysisContext |-> "ctx"] : a \in BOOLEAN }
    /\ InitPanel
    /\ renderer = IdleRenderer

\* the panel with narration events arriving at any time, in any order
NextNarration ==
    \/ ProcessStart
    \/ ProcessUpdate
    \/ ProcessComplete
    \/ Render
    \/ DeliverResponse
    \/ DeliverProposal
    \/ handleSend
    \/ SendReturns
    \/ ClickApprove
    \/ ClickReject
    \/ ResolveReturns

SpecNarration == InitNarration /\ [][NextNarration]_vars

\* ------------------------------------------------------------------ claims
Cards(msgs) == { i \in DOMAIN msgs : IsCard(msgs[i]) }

ProposalById(id) == CHOOSE p \in ProposalInputs : p.proposal_id = id

\* card appends for proposal id waiting in the update queue
QueuedCards(id) ==
    { k \in DOMAIN queue :
        /\ queue[k].op = "append"
        /\ IsCard(queue[k].msg)
        /\ queue[k].msg.proposal.proposal_id = id }

SetQueued == \E k \in DOMAIN queue : queue[k].op = "set"

\* C1: as long as the parent has never supplied a history with a repeated
\* proposalId, no proposalId is on more than one card of the transcript.
C1_AtMostOneCardPerId == ~parentDup => ~HasDuplicateCard(messages)

\* C2: when the working transcript already holds a card for a proposalId, a
\* render pass that is handed that proposal (again) queues no further card for
\* it, and, unless an inbound sync is queued, the cards of that id keep their
\* place and status.
C2_IngestIdempotent ==
    \A id \in ProposalIds :
        CardIndices(messages, id) # {} =>
            /\ QueuedCards(id) = {}
            /\ ~SetQueued =>
                  /\ CardIndices(Transcript, id) = CardIndices(messages, id)
                  /\ \A i \in CardIndices(messages, id) : Transcript[i] = messages[i]

\* the active proposal was handed to a render pass whose transcript already had
\* its card, and the last-seen id alone would not have stopped the ingestion
C2_Witness ==
    /\ Quiescent
    /\ CardIndices(messages, activeProposal.proposal_id) # {}
    /\ Cardinality(CardIndices(messages, activeProposal.proposal_id)) = 1
    /\ lastProposalIdRef # activeProposal.proposal_id

\* C3: no RED card is ever APPROVED, and no resolution call (callback or
\* confirm command) with accepted = true is issued for a RED proposal.
C3_RedNeverApproved ==
    /\ \A i \in Cards(messages) :
          messages[i].proposal.safety_level = "RED" => messages[i].status # "approved"
    /\ \A k \in DOMAIN calls :
          calls[k].accepted => ProposalById(calls[k].id).safety_level # "RED"

\* a RED card has been decided: it is REJECTED and the rejection was issued
C3_Witness ==
    \E i \in Cards(messages) :
        /\ messages[i].proposal.safety_level = "RED"
        /\ messages[i].status = "rejected"
        /\ \E k \in DOMAIN calls :
              calls[k].id = messages[i].proposal.proposal_id /\ ~calls[k].accepted

\* what the rendered card offers: reject always, approve exactly when the
\* proposal is not RED, and either button enabled exactly while PENDING
C4_CardOffer(msg) ==
    /\ RejectOffered(msg)
    /\ ApproveOffered(msg) <=> msg.proposal.safety_level # "RED"
    /\ ButtonEnabled(msg) <=> msg.status = "pending"

\* C4: every card offers approve if and only if its proposal is not RED (a RED
\* card offers reject only) and enables its buttons only while PENDING; so a
\* decision is issued only from a PENDING card of that id, and an approval
\* only from such a card that is not RED.
C4_ButtonsOffered ==
    [][/\ \A i \in Cards(messages) : C4_CardOffer(messages[i])
       /\ \A i \in Cards(messages') : C4_CardOffer(messages'[i])
       /\ Len(calls') > Len(calls) =>
             LET c == calls'[Len(calls')]
             IN  \E i \in CardIndices(messages, c.id) :
                    /\ messages[i].status = "pending"
                    /\ (c.accepted => messages[i].proposal.safety_level # "RED")]_vars

\* both kinds of card have been decided: a card that is not RED was approved
\* and a RED card was rejected
C4_Witness ==
    /\ \E i \in Cards(messages) :
          messages[i].proposal.safety_level # "RED" /\ messages[i].status = "approved"
    /\ \E k \in DOMAIN calls :
          ~calls[k].accepted /\ ProposalById(calls[k].id).safety_level = "RED"

\* C5: for every proposalId at most one resolution call (callback or
\* confirm/reject command) is ever issued.
C5_ResolvedAtMostOnce ==
    \A k1, k2 \in DOMAIN calls : calls[k1].id = calls[k2].id => k1 = k2

\* the steps C6 speaks of: every operation of the panel except the inbound
\* sync (a render pass committing the parent's history) and a remount
C6_LocalStep ==
    \/ ClickApprove
    \/ ClickReject
    \/ ResolveReturns
    \/ DeliverProposal
    \/ (Render /\ ~SetQueued)

\* C6: a card that is APPROVED or REJECTED keeps that status through every
\* resolve, ingestion and resolution failure.
C6_StatusTerminal ==
    [][C6_LocalStep =>
          \A i \in Cards(messages) :
              messages[i].status # "pending" =>
                  /\ i \in Cards(messages')
                  /\ messages'[i].status = messages[i].status]_vars

\* C7: a decision on a PENDING YELLOW card sets every PENDING card of that id
\* to APPROVED (accepted) or REJECTED (not accepted) and issues exactly one
\* call, carrying the id, the decision and the current analysis context.
C7_ResolveYellow ==
    [][(ClickApprove \/ ClickReject) =>
          /\ Len(calls') = Len(calls) + 1
          /\ SubSeq(calls', 1, Len(calls)) = calls
          /\ LET c == calls'[Len(calls')]
             IN  /\ ClickApprove => c.accepted
                 /\ ClickReject => ~c.accepted
                 /\ c.via = IF config.hasOnResolve THEN "onResolveProposal"
                            ELSE IF c.accepted THEN "CHAT_CONFIRM" ELSE "CHAT_REJECT"
                 /\ c.context = IF config.hasOnResolve \/ config.analysisContext # "undefined"
                                THEN config.analysisContext ELSE "{}"
                 /\ \E i \in CardIndices(messages, c.id) : messages[i].status = "pending"
                 /\ \A i \in CardIndices(messages, c.id) :
                       (messages[i].status = "pending"
                          /\ messages[i].proposal.safety_level = "YELLOW") =>
                           messages'[i].status =
                               IF c.accepted THEN "approved" ELSE "rejected"]_vars

\* a YELLOW card was approved through the callback, called once with the
\* analysis context
C7_Witness ==
    \E i \in Cards(messages) :
        /\ messages[i].proposal.safety_level = "YELLOW"
        /\ messages[i].status = "approved"
        /\ calls = << [via |-> "onResolveProposal",
                       id |-> messages[i].proposal.proposal_id,
                       accepted |-> TRUE, context |-> "ctx"] >>

\* C8: a failed resolution queues exactly one update, the append of one plain
\* assistant message; the committed transcript is untouched and the transcript
\* with the queue applied is the previous one plus that message, so every card
\* keeps its status.
C8_FailureAppendsOnly ==
    [][(ResolveReturns /\ queue' # queue) =>
          /\ Len(queue') = Len(queue) + 1
          /\ LET u == queue'[Len(queue')]
             IN  /\ u.op = "append"
                 /\ u.msg.role = "assistant"
                 /\ ~IsCard(u.msg)
                 /\ Transcript' = Append(Transcript, u.msg)
          /\ messages' = messages]_vars

\* the failure message is in the committed transcript next to a card that kept
\* its decided status
C8_Witness ==
    /\ \E i \in DOMAIN messages : messages[i].content = <<"resolve error">>
    /\ \E i \in Cards(messages) : messages[i].status # "pending"
    /\ Len(calls) = 1

\* C9: a card whose PROPOSAL carries no safety_level is yellow-zone and not
\* red-zone, shows the YELLOW badge, offers approve and reject, and leaves
\* PENDING only through an issued decision.
C9_UntieredIsYellow ==
    \A i \in Cards(messages) :
        LET m == messages[i]
        IN  (m.proposal.type = "PROPOSAL" /\ m.proposal.safety_level = NoTier) =>
                /\ isYellowZone(m.proposal)
                /\ ~isRedZone(m.proposal)
                /\ Badge(m) = "YELLOW"
                /\ ApproveOffered(m) /\ RejectOffered(m)
                /\ m.status # "pending" =>
                      \E k \in DOMAIN calls :
                          /\ calls[k].id = m.proposal.proposal_id
                          /\ calls[k].accepted = (m.status = "approved")

\* a card without safety_level went through the approval gate
C9_Witness ==
    \E i \in Cards(messages) :
        /\ messages[i].proposal.safety_level = NoTier
        /\ messages[i].status = "approved"

\* C10: a response appended as an executed tool action has safety_level GREEN.
C10_ExecutedIsGreen ==
    (~respDirty /\ \E k \in DOMAIN queue :
                      /\ queue[k].op = "append"
                      /\ \E j \in DOMAIN queue[k].msg.content :
                            queue[k].msg.content[j] = "Tool executed")
        => lastResponse.safety_level = "GREEN"

\* -------------------------------------------------- claims on the reconciler
\* onChatUpdate was called in this step: the parent adopted the list or was
\* told it and ignored it
Notified == told' # told \/ (Render /\ chatHistory' # chatHistory)

\* the pass of this step performs the inbound overwrite
SyncPerformed == Render /\ \E k \in DOMAIN queue' : queue'[k].op = "set"

\* the pass of this step observes messages overwritten by inbound syncs only
SyncObserved == Render /\ queue # <<>> /\ \A k \in DOMAIN queue : queue[k].op = "set"

\* C11: neither the pass that queues setMessages(chatHistory) nor the pass
\* that commits it (and nothing else) calls onChatUpdate.
C11_SyncNeverNotifies ==
    [][(SyncPerformed \/ SyncObserved) => ~Notified]_vars

\* the panel shows a history it can only have taken from the parent, and the
\* parent, which adopts nothing, was never told
C11_Witness ==
    /\ ~config.adopts
    /\ Quiescent
    /\ messages # <<>>
    /\ messages = chatHistory.val
    /\ told = <<>>

\* C12: onChatUpdate is called only by a pass that commits a local update, so
\* one local mutation is notified at most once, whatever the parent does next.
C12_OneNotificationPerMutation ==
    [][(Render /\ Notified) => queue # <<>>]_vars

\* C17: with an adopting parent, once the environment stops, the passes stop
\* too, with messages equal to the parent's history.
C17_Settles ==
    <>[](config.adopts => (Quiescent /\ messages = chatHistory.val))

\* the parent adopted a transcript of local mutations and the panel is at rest
C17_Witness ==
    /\ config.adopts
    /\ Quiescent
    /\ events = config.budget
    /\ Len(messages) >= 2
    /\ messages = chatHistory.val

\* C20: no pass queues both the inbound overwrite and a local update.
C20_SingleWriter ==
    [][Render => ~(Len(queue') > 1 /\ \E k \in DOMAIN queue' : queue'[k].op = "set")]_vars

\* the step commits a local mutation: the update of a handler, or queued
\* updates that are not all inbound overwrites
LocalMutationCommitted ==
    /\ Render \/ handleSend \/ ClickApprove \/ ClickReject
    /\ messages' # messages
    /\ queue = <<>> \/ \E k \in DOMAIN queue : queue[k].op # "set"

\* onChatUpdate was called in this step with the list the step committed
NotifiedOfCommitted ==
    \/ told' = Append(told, messages')
    \/ chatHistory' # chatHistory /\ chatHistory' = [defined |-> TRUE, val |-> messages']

\* C21: a pass that commits a local mutation and leaves messages different
\* from the chatHistory it was rendered with calls onChatUpdate(messages), also
\* when chatHistory changed for that same pass.
C21_LocalMutationNotified ==
    [][(LocalMutationCommitted
          /\ JsonDiffers(messages', IF chatHistory.defined THEN chatHistory.val ELSE <<>>))
       => NotifiedOfCommitted]_vars

\* C29: isSyncingFromParent is clear when a pass ends, whether or not the pass
\* set it, and a pass that commits a local mutation without a change of
\* chatHistory calls onChatUpdate when messages then differs from chatHistory.
C29_MarkerConsumed ==
    [][/\ ~isSyncingFromParent'
       /\ (LocalMutationCommitted /\ ~histDirty
             /\ JsonDiffers(messages', IF chatHistory.defined THEN chatHistory.val ELSE <<>>))
          => NotifiedOfCommitted]_vars

\* the panel took a history from the parent and was then asked a question,
\* of which the parent was told
C29_Witness ==
    /\ ~config.adopts
    /\ Quiescent
    /\ chatHistory.val # <<>>
    /\ Len(messages) = Len(chatHistory.val) + 1
    /\ SubSeq(messages, 1, Len(chatHistory.val)) = chatHistory.val
    /\ told = << messages >>

\* ------------------------------------------------ claims on the two channels
\* the pass of this step runs the lastResponse effect on a response whose
\* receipt time is earlier than the mount time
StalePass ==
    /\ (Render /\ respDirty) \/ Remount
    /\ lastResponse.cmd # "null"
    /\ lastResponse.receivedAt # NoTime
    /\ lastResponse.receivedAt < mountedAt'

\* C13: a pass that is handed a response received before the mount queues no
\* message for it (the only append it can queue is the card of the active
\* proposal) and, unless it ingests that card, leaves isLoading as it was.
C13_StaleDiscarded ==
    [][StalePass =>
          /\ \A k \in DOMAIN queue' :
                 queue'[k].op = "append" =>
                     IsCard(queue'[k].msg) /\ queue'[k].msg.proposal = activeProposal
          /\ (\A k \in DOMAIN queue' : queue'[k].op # "append") =>
                 isLoading' = IF Remount THEN FALSE ELSE isLoading]_vars

\* a chat reply received before the mount was handed to the panel while it was
\* waiting for one: the question is still the last message and isLoading is set
C13_Witness ==
    /\ Quiescent
    /\ lastResponse.cmd = "CHAT" /\ lastResponse.type = "CHAT"
    /\ lastResponse.receivedAt # NoTime
    /\ lastResponse.receivedAt < mountedAt
    /\ isLoading
    /\ messages # <<>> /\ messages[Len(messages)].role = "user"

\* C14: the transcript never holds two cards with status PENDING.
C14_OnePending ==
    Cardinality({ i \in Cards(messages) : messages[i].status = "pending" }) <= 1

\* the plain messages the pass of this step queued
PlainAppends == { k \in DOMAIN queue' : queue'[k].op = "append" /\ ~IsCard(queue'[k].msg) }

\* the pass of this step runs the lastResponse effect on a CHAT response that is not stale
ChatResponsePass ==
    /\ Render /\ respDirty
    /\ lastResponse.cmd = "CHAT"
    /\ ~(lastResponse.receivedAt # NoTime /\ lastResponse.receivedAt < mountedAt)

\* the response stream: a text or executed reply queues one assistant message,
\* a proposal none, and neither a card of its own
C15_ResponseStream ==
    ChatResponsePass =>
        /\ Cardinality(PlainAppends) = IF lastResponse.type = "PROPOSAL" THEN 0 ELSE 1
        /\ \A k \in PlainAppends : queue'[k].msg.role = "assistant"
        /\ \A k \in DOMAIN queue' :
               (queue'[k].op = "append" /\ IsCard(queue'[k].msg)) =>
                   queue'[k].msg.proposal = activeProposal

\* C15: every card of the transcript carries a response of type PROPOSAL, and
\* the response stream turns a text or executed reply into exactly one
\* assistant message and a proposal into none.
C15_OnlyProposalsBecomeCards ==
    [][/\ \A i \in Cards(messages') : messages'[i].proposal.type = "PROPOSAL"
       /\ C15_ResponseStream]_vars

\* C16: without onResolveProposal a decision emits exactly one command,
\* CHAT_CONFIRM when accepted and CHAT_REJECT otherwise, with the id of the
\* decided card and the analysis context or {} when there is none; with
\* onResolveProposal no command is ever emitted.
C16_FallbackCommand ==
    [][/\ config.hasOnResolve =>
             \A k \in DOMAIN calls' : calls'[k].via = "onResolveProposal"
       /\ (~config.hasOnResolve /\ (ClickApprove \/ ClickReject)) =>
             /\ Len(calls') = Len(calls) + 1
             /\ SubSeq(calls', 1, Len(calls)) = calls
             /\ LET c == calls'[Len(calls')]
                IN  /\ c.via = IF ClickApprove THEN "CHAT_CONFIRM" ELSE "CHAT_REJECT"
                    /\ c.accepted = (c.via = "CHAT_CONFIRM")
                    /\ \E i \in CardIndices(messages, c.id) :
                          messages[i].status = "pending" /\ messages'[i].status # "pending"
                    /\ c.context = IF config.analysisContext = "undefined" THEN "{}"
                                   ELSE config.analysisContext
       /\ (~config.hasOnResolve /\ ~(ClickApprove \/ ClickReject)) => calls' = calls]_vars

\* a proposal was approved by command, the command carrying the analysis context
C16_Witness ==
    /\ ~config.hasOnResolve
    /\ calls = << [via |-> "CHAT_CONFIRM", id |-> "p1", accepted |-> TRUE,
                   context |-> "ctx"] >>
    /\ \E i \in CardIndices(messages, "p1") : messages[i].status = "approved"

\* ---------------------------------------------------- claims on narration
\* the activity indicators the narration events can produce
Activities ==
    {NoActivity} \cup { Activity(n, st) : n \in {"task", "AI Thinking"},
                                          st \in {"undefined", "step1", "step2"} }

\* what the next pass does to everything but the indicator, were the indicator a
PassOutcome(a) ==
    [Pass(messages, queue, histDirty, cbDirty, respDirty, propDirty, FALSE,
          isSyncingFromParent, lastProposalIdRef, isLoading, a, mountedAt, now)
       EXCEPT !.aiActivity = NoActivity]

\* C22: a narration event changes nothing but aiActivity (not the transcript
\* or its queued updates, no card, not the marker, no onChatUpdate or
\* resolution call), and what the panel does next does not depend on
\* aiActivity, so lost, repeated or reordered events change nothing else.
C22_NarrationOnlyIndicator ==
    [][/\ Narration =>
             /\ UNCHANGED <<messages, queue, isSyncingFromParent, isLoading, chatHistory,
                            told, calls, resolvePending, lastProposalIdRef>>
             /\ Transcript' = Transcript
       /\ \A a \in Activities : PassOutcome(a) = PassOutcome(aiActivity)]_vars

\* an update event arrived without its start event while a card was pending
\* and a question was waiting for its answer
C22_Witness ==
    /\ aiActivity = Activity("AI Thinking", "step2")
    /\ isLoading
    /\ \E i \in Cards(messages) : messages[i].status = "pending"
    /\ messages[Len(messages)].role = "user"

\* ------------------------------------------------- claims on the handlers
\* the catch block of handleSend ran in this step
SendFailed == SendReturns /\ queue' # queue

\* C23: a rejected sendCommand('CHAT') queues exactly one update, the append
\* of one plain assistant message: the transcript with the queue applied is the
\* previous one (the user's message and every card as they were) plus that
\* message; isLoading is cleared, and nothing leaves the panel (no onChatUpdate,
\* no resolution call, no prop changed).
C23_SendFailureLocal ==
    [][SendFailed =>
          /\ Len(queue') = Len(queue) + 1
          /\ LET u == queue'[Len(queue')]
             IN  /\ u.op = "append"
                 /\ u.msg.role = "assistant"
                 /\ ~IsCard(u.msg)
                 /\ Transcript' = Append(Transcript, u.msg)
          /\ messages' = messages
          /\ isLoading' = FALSE
          /\ UNCHANGED <<chatHistory, told, calls, resolvePending>>]_vars

\* the error message is in the committed transcript right after the question,
\* behind a card that is still pending, and the panel accepts input again
C23_Witness ==
    /\ Quiescent
    /\ ~isLoading
    /\ Len(messages) = 3
    /\ IsCard(messages[1]) /\ messages[1].status = "pending"
    /\ messages[2].role = "user"
    /\ messages[3].role = "assistant" /\ messages[3].content = <<"send error">>

\* the steps C25 speaks of: query submission, response delivery, proposal
\* ingestion, resolve, resolution failure and send failure, with the passes
\* that commit their updates; not a pass that commits an inbound overwrite
C25_LocalStep ==
    \/ handleSend
    \/ ClickApprove
    \/ ClickReject
    \/ SendReturns
    \/ ResolveReturns
    \/ DeliverResponse
    \/ DeliverProposal
    \/ (Render /\ ~SetQueued)

\* an entry with its status field left out of the comparison
SansStatus(msg) == [msg EXCEPT !.status = "none"]

\* C25: every step other than the inbound sync leaves each entry of the
\* transcript at its index with its role, content, timestamp and proposal; a
\* status changes only on the cards of the id a decision was just issued for;
\* and the updates such a step queues are appends, unless its pass queues the
\* inbound overwrite.
C25_EntriesKept ==
    [][C25_LocalStep =>
          /\ Len(messages') >= Len(messages)
          /\ \A i \in DOMAIN messages :
                /\ SansStatus(messages'[i]) = SansStatus(messages[i])
                /\ messages'[i].status # messages[i].status =>
                      /\ ClickApprove \/ ClickReject
                      /\ IsCard(messages[i])
                      /\ messages[i].proposal.proposal_id = calls'[Len(calls')].id
          /\ Render \/ (Len(queue') >= Len(queue) /\ SubSeq(queue', 1, Len(queue)) = queue)
          /\ \A k \in DOMAIN queue' :
                \/ queue'[k].op = "append"
                \/ ~Render /\ k <= Len(queue)
                \/ Render /\ queue'[k].op = "set"]_vars

\* a card was decided, a question asked and its failure reported, each entry
\* where it was put
C25_Witness ==
    /\ Quiescent
    /\ Len(messages) = 3
    /\ IsCard(messages[1]) /\ messages[1].status = "rejected"
    /\ messages[2].role = "user"
    /\ messages[3].content = <<"send error">>

\* the pass of this step is handed a reply on lastResponse that is not stale
ReplyDelivered ==
    /\ Render /\ respDirty
    /\ \/ lastResponse.cmd = "CHAT" /\ lastResponse.type \in {"CHAT", "EXECUTE"}
       \/ lastResponse.cmd \in {"AGENT_TASK", "SUMMARIZE_DE"}
    /\ ~IsStale(lastResponse, mountedAt)

\* the pass of this step is handed a proposal on activeProposal
ProposalDelivered ==
    /\ Render /\ propDirty
    /\ activeProposal.type # "null" /\ activeProposal.proposal_id # NoId

\* C26: while isLoading is set, a pass that is handed a reply that is not
\* stale, or a proposal (new, already on a card, or already last seen),
\* clears isLoading.
C26_DeliveryClearsLoading ==
    [][(isLoading /\ (ReplyDelivered \/ ProposalDelivered)) => ~isLoading']_vars

\* the replies alone: every reply that is not stale clears isLoading
C26_ReplyClearsLoading ==
    [][(isLoading /\ ReplyDelivered) => ~isLoading']_vars

\* the transcript half of C27: such a decision changes no entry and notifies nobody
C27_TranscriptKept ==
    (ClickDisplayed /\ CardIndices(Transcript, queue'[Len(queue')].id) = {}) =>
        /\ Transcript' = Transcript
        /\ told' = told /\ chatHistory' = chatHistory

\* C27: a decision for a proposalId that has no card in the transcript (the
\* queued updates applied) changes no entry of it and issues no resolution
\* call, neither the callback nor a command, and no onChatUpdate.
C27_UnknownIdIgnored ==
    [][(ClickApprove \/ ClickReject \/ ClickDisplayed) =>
          /\ Len(calls') > Len(calls) =>
                CardIndices(Transcript, calls'[Len(calls')].id) # {}
          /\ C27_TranscriptKept]_vars

\* ----------------------------------------------- claims on the safety classes
\* C28: the proposal of every card of type PROPOSAL is red-zone or
\* yellow-zone and not both, whatever its safety_level.
C28_ExactlyOneZone ==
    \A i \in Cards(messages) :
        messages[i].proposal.type = "PROPOSAL" =>
            isRedZone(messages[i].proposal) # isYellowZone(messages[i].proposal)

\* the same for the proposals whose safety_level is not GREEN
C28_TieredExactlyOneZone ==
    \A i \in Cards(messages) :
        (messages[i].proposal.type = "PROPOSAL" /\ messages[i].proposal.safety_level # "GREEN") =>
            isRedZone(messages[i].proposal) # isYellowZone(messages[i].proposal)

\* ------------------------------------------------------ claims on remounts
\* the panel is at rest with the message of lastResponse in the transcript the
\* parent stored, and is mounted again
RemountAfterAppend ==
    /\ Remount
    /\ Quiescent
    /\ lastResponse.cmd # "null"
    /\ chatHistory.defined
    /\ \E i \in DOMAIN chatHistory.val :
          /\ ~IsCard(chatHistory.val[i])
          /\ chatHistory.val[i].role = "assistant"
          /\ chatHistory.val[i].content = ResponseContent(lastResponse)

\* C30: the mount pass of a panel that is mounted again on a history that
\* holds the message of lastResponse queues no further message for that
\* response, with or without receipt time.
C30_NoReappendOnRemount ==
    [][RemountAfterAppend => PlainAppends = {}]_vars

\* the same for the responses whose receipt time is earlier than the new mount time
C30_StampedNoReappend ==
    [][(RemountAfterAppend /\ lastResponse.receivedAt # NoTime
          /\ lastResponse.receivedAt < mountedAt') => PlainAppends = {}]_vars

\* ------------------------------------------------------ evidence renderer
\* Message content is a sequence of tokens.  A token stands for the characters
\* it spells; NL is the line feed, "1." a run of digits followed by . or ).
MaxTextLen == 6           \* tokens per content of SpecRender

NL == "NL"

RenderTokens == { "[[GENE:", "[[FOO:", "]]", "TP53", "*", " ", NL }

\* the prefixes the tag pattern accepts: [[ (GENE|PATHWAY|COMPOUND) :
Openers == { "[[GENE:", "[[PATHWAY:", "[[COMPOUND:" }

OpenerType(tok) ==
    CASE tok = "[[GENE:" -> "GENE"
      [] tok = "[[PATHWAY:" -> "PATHWAY"
      [] tok = "[[COMPOUND:" -> "COMPOUND"

Min(S) == CHOOSE x \in S : \A y \in S : x <= y

\* /\[\[(?:GENE|PATHWAY|COMPOUND):.+?\]\]/ at position s: the positions of a closing ]]
TagEnds(t, s) ==
    { e \in (s + 2)..Len(t) : t[e] = "]]" /\ \A k \in (s + 1)..(e - 1) : t[k] # NL }

TagStarts(t) == { s \in DOMAIN t : t[s] \in Openers /\ TagEnds(t, s) # {} }

\* /\*\*.+?\*\*/ at position s: the positions of the closing **
BoldEnds(t, s) ==
    { e \in (s + 3)..(Len(t) - 1) :
        t[e] = "*" /\ t[e + 1] = "*" /\ \A k \in (s + 2)..(e - 1) : t[k] # NL }

BoldStarts(t) ==
    { s \in 1..(Len(t) - 1) : t[s] = "*" /\ t[s + 1] = "*" /\ BoldEnds(t, s) # {} }

TextSpan(t) == [kind |-> "text", type |-> "none", text |-> t]
StrongSpan(t) == [kind |-> "strong", type |-> "none", text |-> t]
EntitySpan(type, id) == [kind |-> "entity", type |-> type, text |-> id]

\* part.split(/(\*\*.+?\*\*)/g) and the <strong> / <span> of each piece
RECURSIVE BoldSpans(_)
BoldSpans(t) ==
    IF BoldStarts(t) = {}
    THEN << TextSpan(t) >>
    ELSE LET s == Min(BoldStarts(t))
             e == Min(BoldEnds(t, s))
         IN  << TextSpan(SubSeq(t, 1, s - 1)), StrongSpan(SubSeq(t, s + 2, e - 1)) >>
                 \o BoldSpans(SubSeq(t, e + 2, Len(t)))

RECURSIVE parseTextWithTags(_)
parseTextWithTags(t) ==
    IF TagStarts(t) = {}
    THEN BoldSpans(t)
    ELSE LET s == Min(TagStarts(t))
             e == Min(TagEnds(t, s))
         IN  BoldSpans(SubSeq(t, 1, s - 1))
                 \o << EntitySpan(OpenerType(t[s]), SubSeq(t, s + 1, e - 1)) >>
                 \o parseTextWithTags(SubSeq(t, e + 1, Len(t)))

\* content.split('\n')
RECURSIVE SplitLines(_)
SplitLines(t) ==
    IF \A k \in DOMAIN t : t[k] # NL
    THEN << t >>
    ELSE LET i == Min({ k \in DOMAIN t : t[k] = NL })
         IN  << SubSeq(t, 1, i - 1) >> \o SplitLines(SubSeq(t, i + 1, Len(t)))

RECURSIVE TrimLeft(_)
TrimLeft(t) == IF t # <<>> /\ Head(t) = " " THEN TrimLeft(Tail(t)) ELSE t

RECURSIVE TrimRight(_)
TrimRight(t) ==
    IF t # <<>> /\ t[Len(t)] = " " THEN TrimRight(SubSeq(t, 1, Len(t) - 1)) ELSE t

Trim(t) == TrimRight(TrimLeft(t))

\* trimmed.match(/^[-*]\s+(.+)/): the captured item, <<>> when there is no match
BulletItem_DashOnly(trimmed) ==
    IF Len(trimmed) >= 3 /\ trimmed[1] = "-" /\ trimmed[2] = " "
    THEN TrimLeft(SubSeq(trimmed, 3, Len(trimmed)))
    ELSE <<>>

BulletItem(trimmed) ==
    IF Len(trimmed) >= 3 /\ trimmed[1] \in {"-", "*"} /\ trimmed[2] = " "
    THEN TrimLeft(SubSeq(trimmed, 3, Len(trimmed)))
    ELSE <<>>

\* trimmed.match(/^\d+[.)]\s+(.+)/)
NumItem(trimmed) ==
    IF Len(trimmed) >= 3 /\ trimmed[1] = "1." /\ trimmed[2] = " "
    THEN TrimLeft(SubSeq(trimmed, 3, Len(trimmed)))
    ELSE <<>>

\* trimmed.replace(/\*\*/g, '')
RECURSIVE StripDoubleStars(_)
StripDoubleStars(t) ==
    IF Len(t) < 2 THEN t
    ELSE IF t[1] = "*" /\ t[2] = "*" THEN StripDoubleStars(SubSeq(t, 3, Len(t)))
    ELSE << t[1] >> \o StripDoubleStars(Tail(t))

\* trimmed.replace(/\*/g, '')
StripStars(t) == SelectSeq(t, LAMBDA tok : tok # "*")

Element(tag, items) == [tag |-> tag, items |-> items]

RECURSIVE ParseItems(_)
ParseItems(list) ==
    IF list = <<>> THEN <<>>
    ELSE << parseTextWithTags(Head(list)) >> \o ParseItems(Tail(list))

flushList(elements, currentList, listType) ==
    IF currentList # <<>> /\ listType # "null"
    THEN Append(elements, Element(listType, ParseItems(currentList)))
    ELSE elements

\* the element of a line that is not a list line
LineElement(line) ==
    LET trimmed == Trim(line)
        n == Len(trimmed)
    IN  IF n >= 2 /\ trimmed[1] = "### "
        THEN Element("h3", << parseTextWithTags(Tail(trimmed)) >>)
        ELSE IF n >= 2 /\ trimmed[1] = "*" /\ trimmed[2] = "*"
                /\ trimmed[n] = "*" /\ trimmed[n - 1] = "*"
        THEN Element("h4", << parseTextWithTags(StripDoubleStars(trimmed)) >>)
        ELSE IF n >= 1 /\ trimmed[1] = "*" /\ trimmed[n] = "*"
        THEN Element("em", << parseTextWithTags(StripStars(trimmed)) >>)
        ELSE IF n = 0
        THEN Element("br", <<>>)
        ELSE Element("div", << parseTextWithTags(line) >>)

\* lines.forEach(...) followed by the final flushList
RECURSIVE RenderLines(_, _, _, _)
RenderLines(lines, elements, currentList, listType) ==
    IF lines = <<>>
    THEN flushList(elements, currentList, listType)
    ELSE LET trimmed == Trim(Head(lines))
             rest == Tail(lines)
         IN  IF BulletItem(trimmed) # <<>>
             THEN IF listType # "ul"
                  THEN RenderLines(rest, flushList(elements, currentList, listType),
                                   << BulletItem(trimmed) >>, "ul")
                  ELSE RenderLines(rest, elements,
                                   Append(currentList, BulletItem(trimmed)), "ul")
             ELSE IF NumItem(trimmed) # <<>>
             THEN IF listType # "ol"
                  THEN RenderLines(rest, flushList(elements, currentList, listType),
                                   << NumItem(trimmed) >>, "ol")
                  ELSE RenderLines(rest, elements,
                                   Append(currentList, NumItem(trimmed)), "ol")
             ELSE RenderLines(rest,
                              Append(flushList(elements, currentList, listType),
                                     LineElement(Head(lines))),
                              <<>>, "null")

renderEvidenceContent(content) == RenderLines(SplitLines(content), <<>>, <<>>, "null")

\* the contents handed to the renderer
Contents == UNION { [1..n -> RenderTokens] : n \in 0..MaxTextLen }

InitRender ==
    /\ config = [proposals |-> {}, responses |-> {}, budget |-> 0, adopts |-> TRUE,
                 hasOnResolve |-> TRUE, analysisContext |-> "ctx"]
    /\ InitPanel
    /\ \E c \in Contents : renderer = [IdleRenderer EXCEPT !.content = c]

\* the spans of the rendered elements, in document order
RECURSIVE Flatten(_)
Flatten(seqs) == IF seqs = <<>> THEN <<>> ELSE Head(seqs) \o Flatten(Tail(seqs))

RECURSIVE ElementSpans(_)
ElementSpans(elements) ==
    IF elements = <<>> THEN <<>>
    ELSE Flatten(Head(elements).items) \o ElementSpans(Tail(elements))

EntitySpans(elements) == SelectSeq(ElementSpans(elements), LAMBDA sp : sp.kind = "entity")

\* formatAIContent(msg.content) while a message is displayed
RenderContent ==
    /\ ~renderer.rendered
    /\ renderer' = [renderer EXCEPT !.rendered = TRUE,
                                    !.elements = renderEvidenceContent(renderer.content)]
    /\ UNCHANGED <<messages, queue, isLoading, aiActivity, isSyncingFromParent, mountedAt,
                   lastProposalIdRef, chatHistory, histDirty, cbDirty, lastResponse, respDirty,
                   activeProposal, propDirty, config, now, shelf, calls, resolvePending,
                   sendPending, events, parentDup, told>>

\* one click on an entity span: onClick={() => onEntityClick && onEntityClick(type, id)}
ClickEntity ==
    /\ renderer.rendered
    /\ renderer.clicks = <<>>
    /\ \E i \in DOMAIN EntitySpans(renderer.elements) :
          LET sp == EntitySpans(renderer.elements)[i]
          IN  renderer' = [renderer EXCEPT
                              !.clicks = << [span |-> i, type |-> sp.type, id |-> sp.text] >>]
    /\ UNCHANGED <<messages, queue, isLoading, aiActivity, isSyncingFromParent, mountedAt,
                   lastProposalIdRef, chatHistory, histDirty, cbDirty, lastResponse, respDirty,
                   activeProposal, propDirty, config, now, shelf, calls, resolvePending,
                   sendPending, events, parentDup, told>>

NextRender == RenderContent \/ ClickEntity

SpecRender == InitRender /\ [][NextRender]_vars

\* ---------------------------------------------------- claims on the renderer
\* the well-formed tags of a text, in text order: [[KIND:ID]] with a
\* recognized KIND and a non-empty ID that ends at the first ]] of its line
RECURSIVE WellFormedTags(_)
WellFormedTags(t) ==
    IF TagStarts(t) = {} THEN <<>>
    ELSE LET s == Min(TagStarts(t))
             e == Min(TagEnds(t, s))
         IN  << [type |-> OpenerType(t[s]), id |-> SubSeq(t, s + 1, e - 1)] >>
                 \o WellFormedTags(SubSeq(t, e + 1, Len(t)))

\* C18: the entity spans of the output are, in order, the well-formed tags of
\* the content, each labeled with its ID, and a click on a span calls
\* onEntityClick once with the kind and id of its tag.
C18_OneSpanPerTag ==
    renderer.rendered =>
        LET spans == EntitySpans(renderer.elements)
            tags == WellFormedTags(renderer.content)
        IN  /\ Len(spans) = Len(tags)
            /\ \A i \in DOMAIN spans :
                  i \in DOMAIN tags =>
                      spans[i].type = tags[i].type /\ spans[i].text = tags[i].id
            /\ \A k \in DOMAIN renderer.clicks :
                  LET c == renderer.clicks[k]
                  IN  c.span \in DOMAIN tags =>
                          c.type = tags[c.span].type /\ c.id = tags[c.span].id

\* content without tags and without markdown markers
PlainContent(t) == \A k \in DOMAIN t : t[k] \in {"TP53", " ", NL}

IsBlank(line) == Trim(line) = <<>>

\* the number of maximal runs of consecutive non-blank lines
RECURSIVE Runs(_, _)
Runs(lines, inRun) ==
    IF lines = <<>> THEN 0
    ELSE IF IsBlank(Head(lines)) THEN Runs(Tail(lines), FALSE)
    ELSE (IF inRun THEN 0 ELSE 1) + Runs(Tail(lines), TRUE)

\* the lines the elements show, a blank line for every <br>
RECURSIVE ShownLines(_)
ShownLines(elements) ==
    IF elements = <<>> THEN <<>>
    ELSE << IF Head(elements).tag = "br" THEN <<>>
            ELSE Flatten([i \in DOMAIN ElementSpans(<<Head(elements)>>) |->
                             ElementSpans(<<Head(elements)>>)[i].text]) >>
         \o ShownLines(Tail(elements))

\* C19: for content without tags and markers the output shows the lines of the
\* content unchanged and has one block for every maximal run of consecutive
\* non-blank lines.
C19_PlainTextUnchanged ==
    (renderer.rendered /\ PlainContent(renderer.content)) =>
        /\ ShownLines(renderer.elements) = SplitLines(renderer.content)
        /\ Cardinality({ i \in DOMAIN renderer.elements : renderer.elements[i].tag # "br" })
              = Runs(SplitLines(renderer.content), FALSE)

\* ------------------------------------------------------------ list blocks
MaxListLines == 4         \* lines per content of SpecLists

\* the lines of the contents of SpecLists: list lines of either kind and with
\* either unordered marker, indented and with a tag as item, a plain and a
\* blank line, a marker without item, an emphasised line, a dash without space
ListLines ==
    { <<"-", " ", "TP53">>,
      <<"*", " ", "EGFR">>,
      <<"1.", " ", "TP53">>,
      <<" ", "1.", " ", " ", "[[GENE:", "EGFR", "]]">>,
      <<"TP53">>,
      <<>>,
      <<"-", " ">>,
      <<"*", "TP53", "*">>,
      <<"-", "TP53">> }

\* lines.join('\n')
RECURSIVE JoinLines(_)
JoinLines(lines) ==
    IF Len(lines) = 1 THEN Head(lines)
    ELSE Head(lines) \o << NL >> \o JoinLines(Tail(lines))

ListContents ==
    { JoinLines(ls) : ls \in UNION { [1..n -> ListLines] : n \in 1..MaxListLines } }

InitLists ==
    /\ config = [proposals |-> {}, responses |-> {}, budget |-> 0, adopts |-> TRUE,
                 hasOnResolve |-> TRUE, analysisContext |-> "ctx"]
    /\ InitPanel
    /\ \E c \in ListContents : renderer = [IdleRenderer EXCEPT !.content = c]

SpecLists == InitLists /\ [][NextRender]_vars

\* the kind of list a line belongs to: a marker, white space and an item
LineKind(line) ==
    LET t == Trim(line)
    IN  IF Len(t) >= 3 /\ t[2] = " "
        THEN IF t[1] \in {"-", "*"} THEN "ul"
             ELSE IF t[1] = "1." THEN "ol" ELSE "none"
        ELSE "none"

\* the item of a list line: what follows the marker and the white space
LineItem(line) == TrimLeft(SubSeq(Trim(line), 3, Len(Trim(line))))

\* the length of the maximal run of lines of kind k at the head of lines
RunLength(lines, k) ==
    CHOOSE n \in 1..Len(lines) :
        /\ \A i \in 1..n : LineKind(lines[i]) = k
        /\ n = Len(lines) \/ LineKind(lines[n + 1]) # k

\* the maximal runs of consecutive list lines of one kind, with their items
RECURSIVE ListRuns(_)
ListRuns(lines) ==
    IF lines = <<>> THEN <<>>
    ELSE IF LineKind(Head(lines)) = "none" THEN ListRuns(Tail(lines))
    ELSE LET k == LineKind(Head(lines))
             n == RunLength(lines, k)
         IN  << [tag |-> k, items |-> [i \in 1..n |-> LineItem(lines[i])]] >>
                 \o ListRuns(SubSeq(lines, n + 1, Len(lines)))

\* the <ul> and <ol> elements of the output, in order
ListBlocks(elements) == SelectSeq(elements, LAMBDA el : el.tag \in {"ul", "ol"})

\* C24: the list blocks of the output are, in order, the maximal runs of
\* consecutive list lines of one kind: as many blocks as runs, each of the
\* kind of its run and with the items of its run in order.
C24_OneBlockPerRun ==
    renderer.rendered =>
        LET blocks == ListBlocks(renderer.elements)
            runs == ListRuns(SplitLines(renderer.content))
        IN  /\ Len(blocks) = Len(runs)
            /\ \A i \in DOMAIN blocks :
                  i \in DOMAIN runs =>
                      /\ blocks[i].tag = runs[i].tag
                      /\ Len(blocks[i].items) = Len(runs[i].items)
                      /\ \A j \in DOMAIN blocks[i].items :
                            j \in DOMAIN runs[i].items =>
                                blocks[i].items[j] = parseTextWithTags(runs[i].items[j])

\* two unordered lines with different markers, directly followed by an ordered
\* line, directly followed by an unordered line: three blocks and nothing else
C24_Witness ==
    /\ renderer.rendered
    /\ Len(renderer.elements) = 3
    /\ renderer.elements[1].tag = "ul" /\ Len(renderer.elements[1].items) = 2
    /\ renderer.elements[2].tag = "ol" /\ Len(renderer.elements[2].items) = 1
    /\ renderer.elements[3].tag = "ul" /\ Len(renderer.elements[3].items) = 1

====
